---- MODULE Spec2Model ----
(***************************************************************************)
(* Model of mkdocs_static_i18n/plugin.py: the I18n plugin's lifecycle      *)
(* hooks and the re-entrant multi-language build driver of on_post_build.  *)
(*                                                                         *)
(* The host (mkdocs) runs one build as a fixed sequence of stages and      *)
(* calls the plugin's hook at each stage.  on_post_build of the top-level  *)
(* build calls build() again for every additional language, so builds      *)
(* nest: the model keeps a call stack with one frame per running build.    *)
(* The frame of a build also holds the locals of the on_post_build call    *)
(* made by that build (loop position, saved clean_directory).              *)
(***************************************************************************)
EXTENDS Integers, Sequences, FiniteSets, TLC

\* ------------------------------------------------------------------ bounds

MaxTopBuilds == 2   \* top-level builds run on one plugin instance
MaxDepth == 3       \* nested build() calls the model follows
MaxJsLen == 2       \* tokens in a generated JavaScript text (SpecPatch)
MaxPatchRuns == 2   \* patch passes applied to the same files (SpecPatch)
MaxOthers == 2      \* handlers of other plugins in one event group (SpecEvents)
MaxHtmlLen == 3     \* tokens in a rendered output (SpecPage)
MaxLinkLen == 3     \* characters in the link of a language (SpecPage)

\* ------------------------------------------------------------- vocabulary

None == "None"
Locales == {"en", "fr", "de"}         \* configured locales; "en" is the default one
Root == "site"                       \* config.site_dir
Dirs == {Root} \cup Locales          \* site_dir and site_dir/<locale>
Themes == {"material", "mkdocs"}

RECURSIVE SeqsUpTo(_, _)
SeqsUpTo(S, n) ==
    IF n = 0 THEN {<<>>}
    ELSE LET shorter == SeqsUpTo(S, n - 1)
         IN  shorter \cup {Append(s, x) : s \in {t \in shorter : Len(t) = n - 1}, x \in S}

Range(s) == {s[i] : i \in 1..Len(s)}
Injective(s) == \A i, j \in 1..Len(s) : s[i] = s[j] => i = j
Orders(S) == {s \in SeqsUpTo(S, Cardinality(S)) : Len(s) = Cardinality(S) /\ Injective(s)}

\* --------------------------------------------------------- state variables

VARIABLES
    default_language,   \* self.default_language
    build_languages,    \* self.build_languages
    theme,              \* config.theme.name
    with_pdf,           \* "with-pdf" in config["plugins"]
    docs_structure,     \* self.config["docs_structure"]
    theme_js,           \* the JavaScript the theme ships into every output tree
    plugins,            \* names of the other plugins in config.plugins, in order
    languages,          \* self.config.languages
    current_language,   \* self.current_language
    building,           \* self.building
    i18n_alternates,    \* self.i18n_alternates (the pass whose files it maps)
    clean_directory,    \* mkdocs.utils.clean_directory
    filter_blocked,     \* timing message present in duplicate_filter.msgs
    pdf_output_path,    \* with_pdf_plugin.config["output_path"]
    files,              \* .js file of each output tree under site_dir
    stack,              \* running builds, innermost last
    passes,             \* build() calls made so far
    top_builds,         \* top-level builds started so far
    outcome,            \* how the last top-level build ended
    context,            \* template context returned by on_template_context
    context_in,         \* template context handed to on_template_context
    log_warnings,       \* locales of the "Could not find a homepage" warnings
    log_errors,         \* replacement pairs of the "wasn't modified" errors
    js_written,         \* <<pair, directory>> of every path.write_text
    build_log,          \* output written by each build of this top-level build
    driver_runs,        \* times the driver body ran in this top-level build
    loaded_events,      \* internal_config.plugins.events as load_config returns it
    events,             \* internal_config.plugins.events handed to build()
    patch_runs,         \* patch passes run in this top-level build (in SpecPatch: on the files)
    page                \* the last on_post_template / on_post_page call and its result

cfgvars == <<default_language, build_languages, theme, with_pdf, docs_structure, theme_js,
             plugins, languages>>
evvars == <<loaded_events, events>>
vars == <<default_language, build_languages, theme, with_pdf, docs_structure, theme_js,
          plugins, languages, page, current_language, building, i18n_alternates, clean_directory, filter_blocked,
          pdf_output_path, files, stack, passes, top_builds, outcome, context, context_in,
          log_warnings, log_errors, js_written, build_log, driver_runs,
          loaded_events, events, patch_runs>>

\* ----------------------------------------------------- JavaScript patching

\* Every literal of replace_pairs is a sequence of tokens.  A token stands for
\* a fragment of the literal; a literal that extends another one shares its
\* token.  No literal overlaps the start or end of another, so matching on
\* tokens finds exactly the matches str.replace finds on characters.
MaterialPairs ==
    << [old |-> <<"dq_search_index_json">>, new |-> <<"tpl_i18n_search_index_json">>] >>

OtherPairs ==
    << [old |-> <<"base_path_assign">>, new |-> <<"base_path_assign", "let_i18n_link">>],
       [old |-> <<"call_init_true">>, new |-> <<"call_init_true_i18n_link">>],
       [old |-> <<"if_data_init">>, new |-> <<"if_data_init", "set_i18n_link">>],
       [old |-> <<"get_index_path">>, new |-> <<"get_i18n_search_index">>],
       [old |-> <<"push_stemmer_support">>, new |-> <<"push_i18n_stemmer_support">>],
       [old |-> <<"push_multi">>, new |-> <<"push_i18n_multi">>],
       [old |-> <<"push_tinyseg">>, new |-> <<"push_i18n_tinyseg">>],
       [old |-> <<"push_lunr_lang">>, new |-> <<"push_i18n_lunr_lang">>] >>

replace_pairs(th) == IF th = "material" THEN MaterialPairs ELSE OtherPairs

\* str.replace(old, new): every non-overlapping occurrence, left to right.
RECURSIVE ReplaceFrom(_, _, _, _)
ReplaceFrom(src, old, new, i) ==
    IF i > Len(src) THEN <<>>
    ELSE IF i + Len(old) - 1 <= Len(src) /\ SubSeq(src, i, i + Len(old) - 1) = old
         THEN new \o ReplaceFrom(src, old, new, i + Len(old))
         ELSE <<src[i]>> \o ReplaceFrom(src, old, new, i + 1)

Replace(src, old, new) == ReplaceFrom(src, old, new, 1)

Contains(src, old) ==
    \E i \in 1..Len(src) : i + Len(old) - 1 <= Len(src) /\ SubSeq(src, i, i + Len(old) - 1) = old

\* Faulty variant of the inner loop below: it has no break, and the file it
\* reports is the last one the replacement changes.
RECURSIVE LastChangedFrom(_, _, _, _)
LastChangedFrom(fs, order, pair, i) ==
    IF i = 0 THEN 0
    ELSE IF Replace(fs[order[i]], pair.old, pair.new) # fs[order[i]]
         THEN i
         ELSE LastChangedFrom(fs, order, pair, i - 1)

LastChanged(fs, order, pair, i) == LastChangedFrom(fs, order, pair, Len(order))

\* The inner loop over Path(config.site_dir).glob("**/*.js"), which yields the
\* existing files in the sequence `order`: the position of the first file the
\* replacement changes, 0 when the loop runs to its else clause.
RECURSIVE FirstChanged(_, _, _, _)
FirstChanged(fs, order, pair, i) ==
    IF i > Len(order) THEN 0
    ELSE IF Replace(fs[order[i]], pair.old, pair.new) # fs[order[i]]
         THEN i
         ELSE FirstChanged(fs, order, pair, i + 1)

\* Faulty variant of the iteration below: the for loop has no else clause.
PatchPairNoLog(r, order, pairs, k) ==
    LET hit == FirstChanged(r.files, order, pairs[k], 1)
    IN  IF hit = 0 THEN r
        ELSE [r EXCEPT !.files[order[hit]] = Replace(r.files[order[hit]], pairs[k].old, pairs[k].new),
                       !.written = Append(r.written, <<k, order[hit]>>)]

\* One iteration of "for old, new in replace_pairs": result of the pass so far
\* is r = [files, errors, written]; k is the pair's index.
PatchPair(r, order, pairs, k) ==
    LET hit == FirstChanged(r.files, order, pairs[k], 1)
    IN  IF hit = 0
        THEN [r EXCEPT !.errors = Append(r.errors, k)]
        ELSE [r EXCEPT !.files[order[hit]] = Replace(r.files[order[hit]], pairs[k].old, pairs[k].new),
                       !.written = Append(r.written, <<k, order[hit]>>)]

RECURSIVE PatchFrom(_, _, _, _)
PatchFrom(r, order, pairs, k) ==
    IF k > Len(pairs) THEN r
    ELSE PatchFrom(PatchPair(r, order, pairs, k), order, pairs, k + 1)

\* The whole patch pass of on_post_build over the files under site_dir.
PatchJs(fs, order, th) ==
    PatchFrom([files |-> fs, errors |-> <<>>, written |-> <<>>], order, replace_pairs(th), 1)

\* ------------------------------------------------------- plugin operations

\* Faulty variant of the guard: the flag is not consulted.
NeverBuilding(b) == FALSE

\* "if self.building: return" at the head of on_post_build.
AlreadyBuilding(b) == b

\* Faulty variant of the monkey patch: the function in place stays.
KeepCleanDirectory(f) == f

\* "utils.clean_directory = lambda x: x": the function installed for the
\* duration of the nested builds, given the one in place.
MonkeyPatch(f) == "noop"

\* "if locale == self.current_language: continue" of the language loop.
SkipLocale(locale, cur) == locale = cur

\* Faulty variant of the language loop: every locale is skipped.
NoLocaleLeft(langs, from, cur) == 0

\* The next iteration of "for locale in self.build_languages" that reaches
\* build(): the first index at or after `from` that is not skipped, 0 when
\* the loop is exhausted.
RECURSIVE NextLocale(_, _, _)
NextLocale(langs, from, cur) ==
    IF from > Len(langs) THEN 0
    ELSE IF SkipLocale(langs[from], cur) THEN NextLocale(langs, from + 1, cur)
         ELSE from

\* Faulty variant of on_config: the default language is assigned on every call.
AlwaysDefault(cur, default) == default

\* on_config: "if self.current_language is None: self.current_language =
\* self.default_language".
ConfiguredLanguage(cur, default) == IF cur = None THEN default ELSE cur

\* The output tree of a pass: the site root for the default language, the
\* per-locale subdirectory for every other one.
OutDir(locale) == IF locale = default_language THEN Root ELSE locale

\* self.current_language_config
LanguageConfig(locale) == [locale |-> locale]

I18nKeys == {"i18n_build_languages", "i18n_current_language_config",
             "i18n_current_language", "i18n_alternates"}

\* Faulty variant of on_template_context: i18n_alternates is not assigned.
StaleAlternatesContext(ctx, langs, cur, alternates) ==
    [k \in DOMAIN ctx \cup (I18nKeys \ {"i18n_alternates"}) |->
        IF k = "i18n_build_languages" THEN langs
        ELSE IF k = "i18n_current_language_config" THEN LanguageConfig(cur)
        ELSE IF k = "i18n_current_language" THEN cur
        ELSE ctx[k]]

\* on_template_context: the four assignments into the context.
TemplateContext(ctx, langs, cur, alternates) ==
    [k \in DOMAIN ctx \cup I18nKeys |->
        IF k = "i18n_build_languages" THEN langs
        ELSE IF k = "i18n_current_language_config" THEN LanguageConfig(cur)
        ELSE IF k = "i18n_current_language" THEN cur
        ELSE IF k = "i18n_alternates" THEN alternates
        ELSE ctx[k]]

\* Faulty variant of the homepage report: the test is dropped.
WarnAlways(log, homepage, cur) == Append(log, cur)

\* on_nav: the warnings logged so far, after the "report missing homepage" test.
ReportHomepage(log, homepage, cur) ==
    IF homepage = None THEN Append(log, cur) ELSE log

\* ------------------------------------------------------------------ on_env

\* A handler of config.plugins.events["post_build"]: the class of the object
\* it is bound to (self is FALSE for a plain function, which has no __self__)
\* and whether on_env has put it inside change_site_dir.
Handler(cls, bound) == [cls |-> cls, self |-> bound, wrapped |-> FALSE]

SearchNames == {"search", "material/search"}

\* The for/else of on_env over config.plugins.items(): the first plugin
\* registered under one of the two search names, None when there is none.
FindSearchPlugin(names) ==
    LET hits == {i \in 1..Len(names) : names[i] \in SearchNames}
    IN  IF hits = {} THEN None
        ELSE names[CHOOSE i \in hits : \A j \in hits : i <= j]

\* Faulty variant of the early return of on_env: the language is not tested.
ReturnsWithoutSearch(search, cur, default) == search = None

\* "if not search_plugin or self.current_language == self.default_language:
\* return None".
ReturnsEarly(search, cur, default) == search = None \/ cur = default

\* The loop over events["post_build"]: the index of the first handler that
\* has a __self__ of the search plugin's class, 0 when the loop ends without
\* a break.
RECURSIVE FirstOfClass(_, _, _)
FirstOfClass(evs, cls, i) ==
    IF i > Len(evs) THEN 0
    ELSE IF ~evs[i].self THEN FirstOfClass(evs, cls, i + 1)
    ELSE IF evs[i].cls = cls THEN i
    ELSE FirstOfClass(evs, cls, i + 1)

\* change_site_dir(event)
ChangeSiteDir(event) == [event EXCEPT !.wrapped = TRUE]

\* events["post_build"] as on_env leaves it.
EnvEvents(evs, names, cur, default) ==
    LET search == FindSearchPlugin(names)
        i == FirstOfClass(evs, search, 1)
    IN  IF ReturnsEarly(search, cur, default) THEN evs
        ELSE IF i = 0 THEN evs
        ELSE [evs EXCEPT ![i] = ChangeSiteDir(evs[i])]

\* str(PurePath(site_dir) / self.current_language)
JoinPath(site_dir, locale) == site_dir \o "/" \o locale

\* config.site_dir as the function inside a handler receives it: wrapper()
\* of change_site_dir for a wrapped handler, the handler itself otherwise.
\* cur is self.current_language when the handler is called.
CalledSiteDir(event, site_dir, cur) ==
    IF event.wrapped /\ site_dir # None THEN JoinPath(site_dir, cur) ELSE site_dir

\* config.site_dir after the host has called the handlers 1..i in order; a
\* wrapped handler assigns it.
RECURSIVE SiteDirAfter(_, _, _, _)
SiteDirAfter(evs, i, site_dir, cur) ==
    IF i = 0 THEN site_dir
    ELSE CalledSiteDir(evs[i], SiteDirAfter(evs, i - 1, site_dir, cur), cur)

\* ----------------------------------------- on_post_template, on_post_page

\* Rendered output is a sequence of tokens: the text "<script", other markup,
\* and the text on_post_page puts between two "<script": the definition of
\* i18n_link, whose value is the token's value.
Script == [tag |-> "<script", value |-> <<>>]
Markup == [tag |-> "markup", value |-> <<>>]
LinkDefinition(link) == [tag |-> ">let i18n_link = ;</script>", value |-> link]

\* f'<script>let i18n_link = "{i18_link}";</script><script'
InsertedScript(link) == <<Script, LinkDefinition(link), Script>>

\* Faulty variant of ReplaceCount: the count is ignored.
ReplaceEvery(src, old, new, count) == Replace(src, old, new)

\* Python's src.replace(old, new, count): the first count occurrences.
RECURSIVE ReplaceCountFrom(_, _, _, _, _)
ReplaceCountFrom(src, old, new, count, i) ==
    IF i > Len(src) THEN <<>>
    ELSE IF count = 0 THEN SubSeq(src, i, Len(src))
    ELSE IF i + Len(old) - 1 <= Len(src) /\ SubSeq(src, i, i + Len(old) - 1) = old
         THEN new \o ReplaceCountFrom(src, old, new, count - 1, i + Len(old))
         ELSE <<src[i]>> \o ReplaceCountFrom(src, old, new, count, i + 1)

ReplaceCount(src, old, new, count) == ReplaceCountFrom(src, old, new, count, 1)

\* next(filter(lambda l: l.locale == self.current_language,
\* self.config.languages)): the first configured language of that locale.
CurrentLanguageEntry(langs, cur) ==
    LET hits == {i \in 1..Len(langs) : langs[i].locale = cur}
    IN  langs[CHOOSE i \in hits : \A j \in hits : i <= j]

\* current_language.link.replace("./", "")
I18nLink(link) == Replace(link, <<".", "/">>, <<>>)

\* The return statement shared by on_post_template and on_post_page.
InsertLink(output, langs, cur) ==
    ReplaceCount(output, <<Script>>,
                 InsertedScript(I18nLink(CurrentLanguageEntry(langs, cur).link)), 1)

\* on_post_template: what it returns, and the text when it returns one.
PostTemplate(output, template_name, langs, cur) ==
    IF template_name = "sitemap.xml"
    THEN [returned |-> None, result |-> <<>>]
    ELSE [returned |-> "str", result |-> InsertLink(output, langs, cur)]

\* on_post_page
PostPage(output, langs, cur) ==
    [returned |-> "str", result |-> InsertLink(output, langs, cur)]

\* on_page_context: the two assignments into the context.  The locale of the
\* page's file is file_locale.
PageContext(ctx, file_locale) ==
    [k \in DOMAIN ctx \cup {"i18n_config", "i18n_page_locale"} |->
        IF k = "i18n_config" THEN "self.config"
        ELSE IF k = "i18n_page_locale" THEN file_locale
        ELSE ctx[k]]

\* ------------------------------------------------------------ host builds

NoContext == [k \in {} |-> None]
NoFiles == [d \in {} |-> <<>>]
NoEvents == [g \in {} |-> <<>>]

\* The JavaScript a theme ships: a release whose search code holds patched
\* literals, and one that holds none of them.
GeneratedJs(th) ==
    IF th = "material"
    THEN { <<"code", "dq_search_index_json">>, <<"code">> }
    ELSE { <<"call_init_true", "code", "call_init_true", "if_data_init">>, <<"code">> }

\* Template contexts the host hands to on_template_context; the last one
\* carries an i18n key left by an earlier use.
ContextsIn ==
    { [k \in {"config"} |-> "mkdocs_yml"],
      [k \in {"config", "pages"} |-> "host_value"],
      [k \in {"config", "i18n_current_language"} |-> "en"] }

\* The values self.build_languages can have: the configured locales that are
\* built, each once, in the order of the configuration, the default language
\* among them at any place.
BuildLanguageLists(default) ==
    {s \in SeqsUpTo(Locales, Cardinality(Locales)) : Injective(s) /\ default \in Range(s)}

\* Plugin lists of a site: another plugin, and with it the search plugin of
\* the theme, before or after it.
PluginLists(th) ==
    IF th = "material"
    THEN { <<"minify">>, <<"minify", "material/search">> }
    ELSE { <<"minify">>, <<"search", "minify">> }

\* config.plugins.events["post_build"] of a configuration as the host loads
\* it: a hook function, the handler of every plugin, and I18n's own, which
\* its priority of -100 puts last.
PostBuildEvents(names) ==
    <<Handler("function", FALSE)>> \o [i \in 1..Len(names) |-> Handler(names[i], TRUE)]
        \o <<Handler("I18n", TRUE)>>

\* The languages of the configuration, each with the link of its tree.
SiteLanguages ==
    << [locale |-> "en", link |-> <<".", "/">>],
       [locale |-> "fr", link |-> <<".", "/", "fr", "/">>],
       [locale |-> "de", link |-> <<".", "/", "de", "/">>] >>

\* What the host renders for a page or a template, and the templates it
\* builds besides the pages.
RenderedHtml == <<Markup, Script, Markup, Script>>
TemplateNames == {"sitemap.xml", "404.html"}

NoPage == [hook |-> "none", template_name |-> "", output |-> <<>>,
           returned |-> None, result |-> <<>>]

\* A call of one of the two hooks on output, and what the hook gave back.
PageCall(hook, template_name, output, r) ==
    [hook |-> hook, template_name |-> template_name, output |-> output,
     returned |-> r.returned, result |-> r.result]

Frame(n) ==
    [pc |-> "config", pass |-> n, loop_i |-> 0, saved_clean |-> "unset",
     saved_pdf |-> "unset", homepage |-> "unset", glob_order |-> <<>>,
     post_build |-> PostBuildEvents(plugins), site_dir |-> Root,
     search_dir |-> "unset"]

Top == stack[Len(stack)]
Caller == stack[Len(stack) - 1]
SetTop(stk, f) == [stk EXCEPT ![Len(stk)] = f]
Running(p) == stack # <<>> /\ Top.pc = p
Goto(p) == stack' = SetTop(stack, [Top EXCEPT !.pc = p])

Init ==
    /\ default_language = "en"
    /\ build_languages \in BuildLanguageLists(default_language)
    /\ theme \in Themes
    /\ with_pdf \in BOOLEAN
    /\ docs_structure \in {"suffix", "folder"}
    /\ theme_js \in GeneratedJs(theme)
    /\ plugins \in PluginLists(theme)
    /\ languages = SiteLanguages
    /\ page = NoPage
    /\ current_language = None
    /\ building = FALSE
    /\ i18n_alternates = 0
    /\ clean_directory = "original"
    /\ filter_blocked = FALSE
    /\ pdf_output_path = "base"
    /\ files = NoFiles
    /\ stack = <<>>
    /\ passes = 0
    /\ top_builds = 0
    /\ outcome = "none"
    /\ context = NoContext
    /\ context_in = NoContext
    /\ log_warnings = <<>>
    /\ log_errors = <<>>
    /\ js_written = <<>>
    /\ build_log = <<>>
    /\ driver_runs = 0
    /\ loaded_events = NoEvents
    /\ events = NoEvents
    /\ patch_runs = 0

\* The host starts a top-level build (mkdocs build, or a later build run on
\* the same plugin instance).
StartBuild ==
    /\ stack = <<>>
    /\ top_builds < MaxTopBuilds
    /\ top_builds' = top_builds + 1
    /\ passes' = passes + 1
    /\ stack' = <<Frame(passes + 1)>>
    /\ outcome' = "running"
    /\ log_warnings' = <<>>
    /\ log_errors' = <<>>
    /\ js_written' = <<>>
    /\ build_log' = <<>>
    /\ driver_runs' = 0
    /\ patch_runs' = 0
    /\ UNCHANGED <<cfgvars, evvars, page, current_language, building, i18n_alternates,
                   clean_directory, filter_blocked, pdf_output_path, files, context,
                   context_in>>

OnConfig ==
    /\ Running("config")
    /\ current_language' = ConfiguredLanguage(current_language, default_language)
    /\ Goto("clean")
    /\ UNCHANGED <<cfgvars, evvars, page, building, i18n_alternates, clean_directory,
                   filter_blocked, pdf_output_path, files, passes, top_builds, outcome,
                   context, context_in, log_warnings, log_errors, js_written, build_log,
                   driver_runs, patch_runs>>

\* build() calls utils.clean_directory(config.site_dir) before collecting files.
CleanSiteDir ==
    /\ Running("clean")
    /\ files' = IF clean_directory = "original" THEN NoFiles ELSE files
    /\ Goto("files")
    /\ UNCHANGED <<cfgvars, evvars, page, current_language, building, i18n_alternates,
                   clean_directory, filter_blocked, pdf_output_path, passes, top_builds,
                   outcome, context, context_in, log_warnings, log_errors, js_written,
                   build_log, driver_runs, patch_runs>>

\* An exception leaves every running build: nothing in the plugin catches it.
Raise ==
    /\ stack' = <<>>
    /\ outcome' = "raised"

\* "self.i18n_alternates = self.reconfigure_alternates(i18n_files)": the map
\* of the files of the pass on_files runs in.
Alternates(alternates, pass) == pass

OnFiles ==
    /\ Running("files")
    /\ IF docs_structure = "suffix"
       THEN /\ i18n_alternates' = Alternates(i18n_alternates, Top.pass)
            /\ Goto("nav")
            /\ UNCHANGED outcome
       ELSE /\ Raise
            /\ UNCHANGED i18n_alternates
    /\ UNCHANGED <<cfgvars, evvars, page, current_language, building, clean_directory,
                   filter_blocked, pdf_output_path, files, passes, top_builds, context,
                   context_in, log_warnings, log_errors, js_written, build_log,
                   driver_runs, patch_runs>>

OnNav ==
    /\ Running("nav")
    /\ \E homepage \in {None, "index"} :
          /\ log_warnings' = ReportHomepage(log_warnings, homepage, current_language)
          /\ stack' = SetTop(stack, [Top EXCEPT !.pc = "env",
                                                !.homepage = homepage])
    /\ UNCHANGED <<cfgvars, evvars, page, current_language, building, i18n_alternates,
                   clean_directory, filter_blocked, pdf_output_path, files, passes,
                   top_builds, outcome, context, context_in, log_errors, js_written,
                   build_log, driver_runs, patch_runs>>

OnEnv ==
    /\ Running("env")
    /\ stack' = SetTop(stack, [Top EXCEPT
                    !.pc = "template_context",
                    !.post_build = EnvEvents(Top.post_build, plugins, current_language,
                                             default_language)])
    /\ UNCHANGED <<cfgvars, evvars, page, current_language, building, i18n_alternates,
                   clean_directory, filter_blocked, pdf_output_path, files, passes,
                   top_builds, outcome, context, context_in, log_warnings, log_errors,
                   js_written, build_log, driver_runs, patch_runs>>

OnTemplateContext ==
    /\ Running("template_context")
    /\ \E ctx \in ContextsIn :
          /\ context_in' = ctx
          /\ context' = TemplateContext(ctx, build_languages, current_language,
                                        i18n_alternates)
    /\ Goto("post_template")
    /\ UNCHANGED <<cfgvars, evvars, page, current_language, building, i18n_alternates,
                   clean_directory, filter_blocked, pdf_output_path, files, passes,
                   top_builds, outcome, log_warnings, log_errors, js_written, build_log,
                   driver_runs, patch_runs>>

\* The host has rendered a template and hands the output to on_post_template.
OnPostTemplate ==
    /\ Running("post_template")
    /\ \E name \in TemplateNames :
          page' = PageCall("on_post_template", name, RenderedHtml,
                           PostTemplate(RenderedHtml, name, languages, current_language))
    /\ context' = NoContext
    /\ context_in' = NoContext
    /\ Goto("page_context")
    /\ UNCHANGED <<cfgvars, evvars, current_language, building, i18n_alternates,
                   clean_directory, filter_blocked, pdf_output_path, files, passes,
                   top_builds, outcome, log_warnings, log_errors, js_written, build_log,
                   driver_runs, patch_runs>>

\* The host builds the context of a page; the page's file is one of the
\* current language or the default language's file that stands in for it.
OnPageContext ==
    /\ Running("page_context")
    /\ \E file_locale \in {current_language, default_language} :
          /\ context_in' = [k \in {"config"} |-> "mkdocs_yml"]
          /\ context' = PageContext(context_in', file_locale)
    /\ page' = NoPage
    /\ Goto("post_page")
    /\ UNCHANGED <<cfgvars, evvars, current_language, building, i18n_alternates,
                   clean_directory, filter_blocked, pdf_output_path, files, passes,
                   top_builds, outcome, log_warnings, log_errors, js_written, build_log,
                   driver_runs, patch_runs>>

\* The host has rendered the page and hands the output to on_post_page; the
\* call of with-pdf's on_post_page inside it leaves the output alone.
OnPostPage ==
    /\ Running("post_page")
    /\ page' = PageCall("on_post_page", "", RenderedHtml,
                        PostPage(RenderedHtml, languages, current_language))
    /\ context' = NoContext
    /\ context_in' = NoContext
    /\ Goto("render")
    /\ UNCHANGED <<cfgvars, evvars, current_language, building, i18n_alternates,
                   clean_directory, filter_blocked, pdf_output_path, files, passes,
                   top_builds, outcome, log_warnings, log_errors, js_written, build_log,
                   driver_runs, patch_runs>>

\* The host renders the pass and writes its output tree, theme JavaScript
\* included.
RenderSite ==
    /\ Running("render")
    /\ LET dir == OutDir(current_language)
       IN  /\ files' = [d \in DOMAIN files \cup {dir} |->
                           IF d = dir THEN theme_js ELSE files[d]]
           /\ build_log' = Append(build_log, [depth |-> Len(stack),
                                              locale |-> current_language,
                                              dir |-> dir])
    /\ context' = NoContext
    /\ context_in' = NoContext
    /\ page' = NoPage
    /\ Goto("other_post_build")
    /\ UNCHANGED <<cfgvars, evvars, current_language, building, i18n_alternates,
                   clean_directory, filter_blocked, pdf_output_path, passes, top_builds,
                   outcome, log_warnings, log_errors, js_written, driver_runs, patch_runs>>

\* The host's build fails while rendering.
HostRaises ==
    /\ Running("render")
    /\ Raise
    /\ context' = NoContext
    /\ context_in' = NoContext
    /\ page' = NoPage
    /\ UNCHANGED <<cfgvars, evvars, current_language, building, i18n_alternates,
                   clean_directory, filter_blocked, pdf_output_path, files, passes,
                   top_builds, log_warnings, log_errors, js_written, build_log,
                   driver_runs, patch_runs>>

\* The host runs the post_build handlers in order; I18n's own is the last
\* one and is the step after this.  The frame keeps the site_dir the search
\* plugin's handler was given.
OtherPostBuild ==
    /\ Running("other_post_build")
    /\ LET evs == Top.post_build
           k == FirstOfClass(evs, FindSearchPlugin(plugins), 1)
       IN  stack' = SetTop(stack, [Top EXCEPT
                        !.pc = "post_build",
                        !.site_dir = SiteDirAfter(evs, Len(evs) - 1, Top.site_dir,
                                                  current_language),
                        !.search_dir =
                            IF k = 0 THEN "unset"
                            ELSE CalledSiteDir(evs[k],
                                     SiteDirAfter(evs, k - 1, Top.site_dir,
                                                  current_language),
                                     current_language)])
    /\ UNCHANGED <<cfgvars, evvars, page, current_language, building, i18n_alternates,
                   clean_directory, filter_blocked, pdf_output_path, files, passes,
                   top_builds, outcome, context, context_in, log_warnings, log_errors,
                   js_written, build_log, driver_runs, patch_runs>>

\* ------------------------------------------------- on_post_build, the driver

\* "utils.clean_directory = mkdocs_utils_clean_directory" at the end of
\* on_post_build.
Restore(saved) == saved

\* The language loop of on_post_build from iteration `from` on, then the
\* JavaScript patch and the restores.  stk is the call stack with the build
\* whose on_post_build this is on top; installed is utils.clean_directory as
\* on_post_build has set it.  The loop either reaches build(internal_config)
\* for the next language, and the nested build starts, or it is exhausted and
\* the handler runs to its end.
Drive(stk, from, installed) ==
    LET me == stk[Len(stk)]
        j == NextLocale(build_languages, from, current_language)
    IN  IF j # 0
        THEN /\ Len(stk) < MaxDepth
             /\ current_language' = build_languages[j]
             /\ passes' = passes + 1
             /\ stack' = Append(SetTop(stk, [me EXCEPT !.pc = "driver", !.loop_i = j]),
                                Frame(passes + 1))
             /\ clean_directory' = installed
             /\ filter_blocked' = TRUE
             /\ UNCHANGED <<files, log_errors, js_written, patch_runs>>
        ELSE \E order \in Orders(DOMAIN files) :
                LET r == PatchJs(files, order, theme)
                IN  /\ files' = r.files
                    /\ log_errors' = log_errors \o r.errors
                    /\ js_written' = js_written \o r.written
                    /\ clean_directory' = Restore(me.saved_clean)
                    /\ filter_blocked' = FALSE
                    /\ patch_runs' = patch_runs + 1
                    /\ stack' = SetTop(stk, [me EXCEPT !.pc = "done", !.glob_order = order])
                    /\ UNCHANGED <<current_language, passes>>

\* on_post_build as the host calls it at the end of a build: the early return
\* of the re-entry guard, or the driver up to its first build(internal_config)
\* (to its end when no language is left to build).
OnPostBuild ==
    /\ Running("post_build")
    /\ IF AlreadyBuilding(building)
       THEN /\ Goto("done")
            /\ UNCHANGED <<current_language, building, clean_directory, filter_blocked,
                           pdf_output_path, files, passes, outcome, log_errors,
                           js_written, driver_runs, patch_runs>>
       ELSE /\ building' = TRUE
            /\ driver_runs' = driver_runs + 1
            /\ UNCHANGED pdf_output_path
            /\ \E pdf_raises \in {b \in BOOLEAN : b => with_pdf} :
                  IF pdf_raises
                  THEN \* with_pdf_plugin.on_post_build(config) fails
                       /\ Raise
                       /\ filter_blocked' = TRUE
                       /\ UNCHANGED <<current_language, clean_directory, files, passes,
                                      log_errors, js_written, patch_runs>>
                  ELSE /\ Drive(SetTop(stack, [Top EXCEPT
                                    !.saved_clean = clean_directory,
                                    !.saved_pdf = IF with_pdf THEN pdf_output_path
                                                  ELSE "unset"]),
                                1, MonkeyPatch(clean_directory))
                       /\ UNCHANGED outcome
    /\ UNCHANGED <<cfgvars, evvars, page, i18n_alternates, top_builds, context, context_in,
                   log_warnings, build_log>>

\* build(internal_config) returns into the language loop of the calling
\* on_post_build, which goes on from the statement after the call.
BuildReturns ==
    /\ Len(stack) > 1
    /\ Top.pc = "done"
    /\ LET stk == SubSeq(stack, 1, Len(stack) - 1)
           locale == build_languages[Caller.loop_i]
       IN  \E pdf_raises \in {b \in BOOLEAN : b => with_pdf} :
              /\ pdf_output_path' = IF with_pdf THEN locale ELSE pdf_output_path
              /\ IF pdf_raises
                 THEN \* with_pdf_plugin.on_post_build(internal_config) fails
                      /\ Raise
                      /\ UNCHANGED <<current_language, clean_directory, filter_blocked,
                                     files, passes, log_errors, js_written, patch_runs>>
                 ELSE /\ Drive(stk, Caller.loop_i + 1, clean_directory)
                      /\ UNCHANGED outcome
    /\ UNCHANGED <<cfgvars, evvars, page, building, i18n_alternates, top_builds, context,
                   context_in, log_warnings, build_log, driver_runs>>

\* The top-level build() returns to the host.
TopBuildReturns ==
    /\ Len(stack) = 1
    /\ Top.pc = "done"
    /\ stack' = <<>>
    /\ outcome' = "ok"
    /\ UNCHANGED <<cfgvars, evvars, page, current_language, building, i18n_alternates,
                   clean_directory, filter_blocked, pdf_output_path, files, passes,
                   top_builds, context, context_in, log_warnings, log_errors, js_written,
                   build_log, driver_runs, patch_runs>>

Next ==
    \/ StartBuild
    \/ OnConfig
    \/ CleanSiteDir
    \/ OnFiles
    \/ OnNav
    \/ OnEnv
    \/ OnTemplateContext
    \/ OnPostTemplate
    \/ OnPageContext
    \/ OnPostPage
    \/ RenderSite
    \/ HostRaises
    \/ OtherPostBuild
    \/ OnPostBuild
    \/ BuildReturns
    \/ TopBuildReturns

Spec == Init /\ [][Next]_vars

\* ------------------------------------------ the patch pass on its own

\* Tokens of a generated JavaScript text: the literals the pairs look for,
\* and other code.
JsTokens ==
    {"code"} \cup {MaterialPairs[k].old[1] : k \in DOMAIN MaterialPairs}
             \cup {OtherPairs[k].old[1] : k \in DOMAIN OtherPairs}

JsTexts == SeqsUpTo(JsTokens, MaxJsLen) \ {<<>>}

Idle ==
    /\ current_language = None
    /\ building = FALSE
    /\ i18n_alternates = 0
    /\ clean_directory = "original"
    /\ filter_blocked = FALSE
    /\ pdf_output_path = "base"
    /\ stack = <<>>
    /\ passes = 0
    /\ top_builds = 0
    /\ outcome = "none"
    /\ context = NoContext
    /\ context_in = NoContext
    /\ log_warnings = <<>>
    /\ log_errors = <<>>
    /\ js_written = <<>>
    /\ build_log = <<>>
    /\ driver_runs = 0
    /\ patch_runs = 0

InitPatch ==
    /\ default_language = "en"
    /\ build_languages = <<"en">>
    /\ theme \in Themes
    /\ with_pdf = FALSE
    /\ docs_structure = "suffix"
    /\ theme_js \in JsTexts
    /\ plugins = <<>>
    /\ languages = SiteLanguages
    /\ page = NoPage
    /\ files = [d \in {Root} |-> theme_js]
    /\ loaded_events = NoEvents
    /\ events = NoEvents
    /\ Idle

\* Lines 279-322 of on_post_build applied to the files under site_dir.
PatchPass ==
    /\ patch_runs < MaxPatchRuns
    /\ \E order \in Orders(DOMAIN files) :
          LET r == PatchJs(files, order, theme)
          IN  /\ files' = r.files
              /\ log_errors' = r.errors
              /\ js_written' = r.written
    /\ patch_runs' = patch_runs + 1
    /\ UNCHANGED <<cfgvars, evvars, page, current_language, building, i18n_alternates,
                   clean_directory, filter_blocked, pdf_output_path, stack, passes,
                   top_builds, outcome, context, context_in, log_warnings, build_log,
                   driver_runs>>

NextPatch == PatchPass

SpecPatch == InitPatch /\ [][NextPatch]_vars

\* ------------------------------- the plugin registry of internal_config

\* An event handler: the class and the instance it is bound to.  A plain
\* function (a hook script) has no __self__.
FreshI18n == [cls |-> "I18n", inst |-> "fresh"]
OriginalI18n == [cls |-> "I18n", inst |-> "original"]
OtherHandlers == { [cls |-> "SearchPlugin", inst |-> "search"],
                   [cls |-> "function", inst |-> "none"] }

HasSelf(h) == h.cls # "function"

\* Event groups of the registry, one the I18n class hooks (it defines
\* on_post_build) and one it does not (it defines no on_serve).
EventGroups == {"post_build", "serve"}
I18nGroups == {"post_build"}

InsertAt(group, k, h) == SubSeq(group, 1, k) \o <<h>> \o SubSeq(group, k + 1, Len(group))

\* The groups load_config can return: the handlers of the other plugins and,
\* in the groups the I18n class hooks, the handler of the instance load_config
\* has just created.
LoadedGroups(g) ==
    LET others == SeqsUpTo(OtherHandlers, MaxOthers)
    IN  IF g \in I18nGroups
        THEN UNION {{InsertAt(o, k, FreshI18n) : k \in 0..Len(o)} : o \in others}
        ELSE others

\* "for i, event in enumerate(event_group): ... event_group.pop(i); break"
RECURSIVE FirstI18n(_, _)
FirstI18n(group, i) ==
    IF i > Len(group) THEN 0
    ELSE IF HasSelf(group[i]) /\ group[i].cls = "I18n" THEN i
         ELSE FirstI18n(group, i + 1)

\* Faulty variant of the removal: the group is left as loaded.
KeepGroup(group) == group

RemoveI18nEvent(group) ==
    LET i == FirstI18n(group, 1)
    IN  IF i = 0 THEN group
        ELSE SubSeq(group, 1, i - 1) \o SubSeq(group, i + 1, Len(group))

\* "internal_config.plugins["i18n"] = config.plugins["i18n"]": the registry
\* registers the handlers of the assigned instance, each at the place at[g]
\* its priority gives it.
Reassign(ev, at) ==
    [g \in DOMAIN ev |-> IF g \in I18nGroups THEN InsertAt(ev[g], at[g], OriginalI18n)
                         ELSE ev[g]]

InitEvents ==
    /\ default_language = "en"
    /\ build_languages = <<"en", "fr">>
    /\ theme = "material"
    /\ with_pdf = FALSE
    /\ docs_structure = "suffix"
    /\ theme_js = <<"code">>
    /\ plugins = <<>>
    /\ languages = SiteLanguages
    /\ page = NoPage
    /\ files = NoFiles
    /\ loaded_events \in [EventGroups -> UNION {LoadedGroups(g) : g \in EventGroups}]
    /\ \A g \in EventGroups : loaded_events[g] \in LoadedGroups(g)
    /\ events = NoEvents
    /\ Idle

\* Lines 254-267 of on_post_build: the registry of the configuration that
\* build(internal_config) receives.
PrepareInternalConfig ==
    /\ events = NoEvents
    /\ LET stripped == [g \in EventGroups |-> RemoveI18nEvent(loaded_events[g])]
       IN  \E at \in [I18nGroups -> 0..MaxOthers] :
              /\ \A g \in I18nGroups : at[g] <= Len(stripped[g])
              /\ events' = Reassign(stripped, at)
    /\ UNCHANGED <<cfgvars, page, loaded_events, current_language, building, i18n_alternates,
                   clean_directory, filter_blocked, pdf_output_path, files, stack, passes,
                   top_builds, outcome, context, context_in, log_warnings, log_errors,
                   js_written, build_log, driver_runs, patch_runs>>

NextEvents == PrepareInternalConfig

SpecEvents == InitEvents /\ [][NextEvents]_vars

\* ------------------------------- on_post_template and on_post_page on their own

HtmlTexts == SeqsUpTo({Script, Markup}, MaxHtmlLen)

\* Links of a language: "fr" stands for any character other than "." and "/".
LinkChars == {".", "/", "fr"}
Links == SeqsUpTo(LinkChars, MaxLinkLen)
OtherLink == <<"o", "t", "h", "e", "r">>

\* A call the host is about to make.
PendingCalls ==
    {[hook |-> h, template_name |-> t, output |-> o, returned |-> "pending", result |-> <<>>] :
        h \in {"on_post_template"}, t \in TemplateNames, o \in HtmlTexts}
    \cup
    {[hook |-> h, template_name |-> t, output |-> o, returned |-> "pending", result |-> <<>>] :
        h \in {"on_post_page"}, t \in {""}, o \in HtmlTexts}

InitPage ==
    /\ default_language = "en"
    /\ build_languages = <<"en", "fr">>
    /\ theme = "material"
    /\ with_pdf = FALSE
    /\ docs_structure = "suffix"
    /\ theme_js = <<"code">>
    /\ plugins = <<>>
    /\ current_language \in {"en", "fr"}
    /\ \E link \in Links :
          languages = [i \in 1..2 |->
                          [locale |-> build_languages[i],
                           link |-> IF build_languages[i] = current_language
                                    THEN link ELSE OtherLink]]
    /\ page \in PendingCalls
    /\ building = FALSE
    /\ i18n_alternates = 0
    /\ clean_directory = "original"
    /\ filter_blocked = FALSE
    /\ pdf_output_path = "base"
    /\ files = NoFiles
    /\ stack = <<>>
    /\ passes = 0
    /\ top_builds = 0
    /\ outcome = "none"
    /\ context = NoContext
    /\ context_in = NoContext
    /\ log_warnings = <<>>
    /\ log_errors = <<>>
    /\ js_written = <<>>
    /\ build_log = <<>>
    /\ driver_runs = 0
    /\ loaded_events = NoEvents
    /\ events = NoEvents
    /\ patch_runs = 0

PostTemplateCall ==
    /\ page.hook = "on_post_template"
    /\ page.returned = "pending"
    /\ page' = PageCall(page.hook, page.template_name, page.output,
                        PostTemplate(page.output, page.template_name, languages,
                                     current_language))
    /\ UNCHANGED <<cfgvars, evvars, current_language, building, i18n_alternates,
                   clean_directory, filter_blocked, pdf_output_path, files, stack, passes,
                   top_builds, outcome, context, context_in, log_warnings, log_errors,
                   js_written, build_log, driver_runs, patch_runs>>

PostPageCall ==
    /\ page.hook = "on_post_page"
    /\ page.returned = "pending"
    /\ page' = PageCall(page.hook, page.template_name, page.output,
                        PostPage(page.output, languages, current_language))
    /\ UNCHANGED <<cfgvars, evvars, current_language, building, i18n_alternates,
                   clean_directory, filter_blocked, pdf_output_path, files, stack, passes,
                   top_builds, outcome, context, context_in, log_warnings, log_errors,
                   js_written, build_log, driver_runs, patch_runs>>

NextPage ==
    \/ PostTemplateCall
    \/ PostPageCall

SpecPage == InitPage /\ [][NextPage]_vars

\* ================================================================ claims

NestedBuilds == {i \in 1..Len(build_log) : build_log[i].depth > 1}
AdditionalLanguages == Range(build_languages) \ {default_language}
Count(log, x) == Cardinality({i \in 1..Len(log) : log[i] = x})

\* The on_post_build call of the build on top of the stack has run the driver
\* to its end.
DriverDone == stack # <<>> /\ Top.pc = "done" /\ Top.saved_clean # "unset"

\* C1: within one top-level build the driver body of on_post_build runs at
\* most once; an on_post_build call made inside a nested build returns at the
\* guard, so no nested build starts a build of its own and no nested call
\* runs the driver.
C1_DriverRunsAtMostOnce ==
    /\ driver_runs <= 1
    /\ Len(stack) <= 2
    /\ \A k \in 2..Len(stack) : stack[k].saved_clean = "unset" /\ stack[k].loop_i = 0
    /\ (Len(stack) > 1 => building)

\* C1 witness: a nested build has made its on_post_build call and it returned.
C1_Witness ==
    /\ Len(stack) = 2
    /\ Top.pc = "done"
    /\ driver_runs = 1

\* C2 (as claimed): a top-level build that ran the driver and ended normally
\* has started exactly one nested build per build language other than the
\* default one, and every nested build wrote to a directory other than the
\* default build directory.
C2_OneNestedBuildPerAdditionalLanguage ==
    (outcome = "ok" /\ driver_runs = 1) =>
        /\ \A l \in AdditionalLanguages :
              Cardinality({i \in NestedBuilds : build_log[i].locale = l}) = 1
        /\ \A i \in NestedBuilds :
              build_log[i].locale \in AdditionalLanguages /\ build_log[i].dir # Root

\* C3 (as claimed): a patch pass applied to files that have been patched
\* before leaves every file unchanged.
C3_SecondPatchChangesNothing == [][patch_runs >= 1 => files' = files]_vars

\* C4 (as claimed): once on_post_build has been left, on whatever path,
\* utils.clean_directory is the function saved on entry and not the no-op.
C4_CleanDirectoryRestoredOnEveryExit == stack = <<>> => clean_directory = "original"

\* C5: while a nested build runs, utils.clean_directory is the no-op, the
\* original is still the one saved by the top-level on_post_build, no nested
\* on_post_build has saved anything, and all output written earlier in this
\* top-level build is still on disk.
C5_NestedBuildsNeverClean ==
    Len(stack) > 1 =>
        /\ clean_directory = "noop"
        /\ stack[1].saved_clean = "original"
        /\ \A k \in 2..Len(stack) : stack[k].saved_clean = "unset"
        /\ \A i \in 1..Len(build_log) : build_log[i].dir \in DOMAIN files

\* C5 witness: a second language pass is past the host's clean step, the
\* default output and the first language's output before it.
C5_Witness ==
    /\ Len(stack) = 2
    /\ Top.pc = "nav"
    /\ Len(build_log) = 2
    /\ build_log[1].dir # build_log[2].dir

I18nHandlers(group) == {i \in 1..Len(group) : group[i].cls = "I18n"}
IsNotI18n(h) == h.cls # "I18n"
OtherPlugins(group) == SelectSeq(group, IsNotI18n)

\* C6 (as claimed): in the registry handed to a nested build every event
\* group holds exactly one handler of the I18n class, bound to the original
\* instance, and the handlers of all other plugins are as load_config left
\* them.
C6_EveryGroupHasOneI18nHandler ==
    events # NoEvents =>
        \A g \in EventGroups :
            /\ Cardinality(I18nHandlers(events[g])) = 1
            /\ \A i \in I18nHandlers(events[g]) : events[g][i] = OriginalI18n
            /\ OtherPlugins(events[g]) = OtherPlugins(loaded_events[g])

\* C6 (amended): every event group in which load_config registered a handler
\* of the I18n class holds exactly one such handler, every other group holds
\* none; each of them is bound to the original instance, never to the fresh
\* one; the handlers of all other plugins are unchanged and in their order.
C6_OneI18nHandlerPerHookedGroup ==
    events # NoEvents =>
        \A g \in EventGroups :
            /\ Cardinality(I18nHandlers(events[g]))
                  = (IF I18nHandlers(loaded_events[g]) # {} THEN 1 ELSE 0)
            /\ \A i \in I18nHandlers(events[g]) : events[g][i] = OriginalI18n
            /\ OtherPlugins(events[g]) = OtherPlugins(loaded_events[g])

\* C6 witness: the registry has been prepared from one in which the fresh
\* instance's on_post_build handler stood between handlers of other plugins.
C6_Witness ==
    /\ events # NoEvents
    /\ Len(loaded_events["post_build"]) = 3
    /\ loaded_events["post_build"][2] = FreshI18n
    /\ events["post_build"][1] = OriginalI18n
    /\ Len(events["post_build"]) = 3

\* C7: when on_post_build runs its patch pass, every pair whose original
\* substring is in no .js file logs exactly one error and writes no file,
\* every pair that has a match is still applied (one write, no error), and
\* on_post_build ends normally with clean_directory restored and the timing
\* message removed from the filter.
C7_MissingTargetLogsOneError ==
    [][(~DriverDone /\ DriverDone') =>
          /\ \A k \in DOMAIN replace_pairs(theme) :
                LET found == \E d \in DOMAIN files :
                                 Contains(files[d], replace_pairs(theme)[k].old)
                    writes == {i \in DOMAIN js_written' : js_written'[i][1] = k}
                IN  /\ ~found => (Count(log_errors', k) = 1 /\ writes = {})
                    /\ found => (Count(log_errors', k) = 0 /\ Cardinality(writes) = 1)
          /\ clean_directory' = "original"
          /\ filter_blocked' = FALSE
          /\ outcome' = "running"
          /\ Len(stack') >= 1]_vars

\* C7 witness: the driver has ended after a pass in which a pair without a
\* match logged its error before a later pair was written.
C7_Witness ==
    /\ DriverDone
    /\ \E e \in DOMAIN log_errors, w \in DOMAIN js_written :
          log_errors[e] < js_written[w][1]
    /\ clean_directory = "original"
    /\ ~filter_blocked

\* The language the host or the driver builds in the pass on top of the
\* stack: the locale the language loop chose for a nested build, the default
\* language for the first top-level build; a later top-level build on the
\* same instance builds whatever language the instance was left at.
PassLanguage ==
    IF Len(stack) > 1 THEN build_languages[Caller.loop_i]
    ELSE IF top_builds = 1 THEN default_language
    ELSE current_language

C9_MissingHomepageWarns ==
    [][Running("nav") =>
          /\ Len(stack') = Len(stack)
          /\ stack'[Len(stack')].pc = "env"
          /\ outcome' = outcome
          /\ (stack'[Len(stack')].homepage = None =>
                 log_warnings' = Append(log_warnings, current_language))
          /\ (stack'[Len(stack')].homepage # None => log_warnings' = log_warnings)]_vars

\* C9 witness: a top-level build ended normally although two of its passes,
\* the default one among them, had no homepage.
C9_Witness ==
    /\ outcome = "ok"
    /\ Len(log_warnings) >= 2
    /\ log_warnings[1] = default_language
    /\ Len(build_log) = Len(log_warnings)

\* C10 (as claimed): no nested build ever runs for the default language.
C10_DefaultLanguageNotRebuilt == Len(stack) > 1 => current_language # default_language

\* C11: while the nested build started for a locale runs, at every stage of
\* it and so in every hook the host calls, current_language is that locale;
\* current_language changes only in on_config when it is None and in the
\* language loop of on_post_build.
C11_NestedBuildKeepsItsLanguage ==
    /\ Len(stack) > 1 => current_language = build_languages[Caller.loop_i]
    /\ (stack # <<>> /\ Top.pc \notin {"config", "post_build", "done"})
          => current_language # None

\* C11 witness: the second nested build of a top-level build is in a hook
\* after on_config, building a language other than the default one.
C11_Witness ==
    /\ Len(stack) = 2
    /\ Top.pc = "template_context"
    /\ Caller.loop_i > 1
    /\ Len(build_log) = 2
    /\ current_language # default_language

\* C12 (as claimed): every top-level build that ends normally has run the
\* patch pass exactly once.
C12_PatchPassOncePerTopBuild == outcome = "ok" => patch_runs = 1

\* C12 (amended): a top-level build runs the patch pass at most once, exactly
\* once when it ran the driver and ended normally; the pass runs when no
\* nested build is running and every additional language has been built, no
\* build starts after it, and outside of it on_post_build writes no .js file
\* and logs no patch error.
C12_PatchPassAfterNestedBuilds ==
    /\ patch_runs <= 1
    /\ (outcome = "ok" /\ driver_runs = 1) => patch_runs = 1
    /\ driver_runs = 0 => patch_runs = 0
    /\ Len(stack) > 1 => patch_runs = 0
    /\ patch_runs = 0 => (js_written = <<>> /\ log_errors = <<>>)
    /\ patch_runs = 1 =>
          /\ stack # <<>> => (Len(stack) = 1 /\ Top.pc = "done")
          /\ \A l \in AdditionalLanguages : \E i \in NestedBuilds : build_log[i].locale = l

\* C12 witness: the patch pass has run after two nested builds and rewritten
\* a file.
C12_Witness ==
    /\ patch_runs = 1
    /\ Cardinality(NestedBuilds) = 2
    /\ js_written # <<>>

\* The text of file d after the pairs k..Len(pairs) of which `written` says
\* they were written to d have been applied to txt in their order.
RECURSIVE ApplyWritten(_, _, _, _, _)
ApplyWritten(txt, d, pairs, written, k) ==
    IF k > Len(pairs) THEN txt
    ELSE ApplyWritten(IF <<k, d>> \in Range(written)
                      THEN Replace(txt, pairs[k].old, pairs[k].new) ELSE txt,
                      d, pairs, written, k + 1)

PositionIn(order, d) == CHOOSE i \in 1..Len(order) : order[i] = d

\* C13: in a patch pass every pair is written to at most one file, the first
\* file of the traversal that contains the pair's original substring; a file
\* ends as its text with every occurrence replaced for exactly the pairs
\* written to it, so every other file, copies that hold the same substring
\* included, is unchanged by the pair.
C13_OneFilePerPair ==
    [][patch_runs' = patch_runs + 1 =>
          LET pairs == replace_pairs(theme)
              order == stack'[Len(stack')].glob_order
          IN  /\ Range(order) = DOMAIN files
              /\ DOMAIN files' = DOMAIN files
              /\ \A k \in DOMAIN pairs :
                    LET to == {d \in DOMAIN files : <<k, d>> \in Range(js_written')}
                    IN  /\ Cardinality(to) <= 1
                        /\ Cardinality({i \in DOMAIN js_written' : js_written'[i][1] = k}) <= 1
                        /\ (\E d \in DOMAIN files : Contains(files[d], pairs[k].old))
                              => to # {}
                        /\ \A d \in to :
                              /\ Contains(files[d], pairs[k].old)
                              /\ \A i \in 1..(PositionIn(order, d) - 1) :
                                    ~Contains(files[order[i]], pairs[k].old)
              /\ \A d \in DOMAIN files :
                    files'[d] = ApplyWritten(files[d], d, pairs, js_written', 1)]_vars

\* C13 witness: a pass has rewritten one of two copies that both held a
\* pair's original substring and left the other as it was.
C13_Witness ==
    /\ patch_runs = 1
    /\ js_written # <<>>
    /\ \E d, c \in DOMAIN files :
          /\ d # c
          /\ files[c] = theme_js
          /\ files[d] # theme_js
          /\ \E k \in DOMAIN replace_pairs(theme) : Contains(files[c], replace_pairs(theme)[k].old)

\* C15: once building is True it stays True, and an on_post_build call made
\* while it is True, in a nested build or in a later top-level build on the
\* same instance, only returns: it starts no build, runs no patch pass and
\* changes nothing.
C15_BuildingIsMonotone ==
    [][building =>
          /\ building'
          /\ Running("post_build") =>
                /\ stack' = SetTop(stack, [Top EXCEPT !.pc = "done"])
                /\ UNCHANGED <<files, passes, current_language, clean_directory,
                               filter_blocked, driver_runs, patch_runs, js_written,
                               log_errors, build_log>>]_vars

\* C15 witness: a later top-level build on the instance has ended; its
\* on_post_build ran no driver and no patch pass, and no nested build.
C15_Witness ==
    /\ top_builds = 2
    /\ outcome = "ok"
    /\ building
    /\ driver_runs = 0
    /\ patch_runs = 0
    /\ Len(build_log) = 1

\* The stages of a pass between its on_env and its own on_post_build, where
\* current_language is still the language of the pass.
AfterEnv == {"template_context", "post_template", "page_context", "post_page",
             "render", "other_post_build", "post_build"}

\* C14: after on_env of a pass for a locale other than the default one, with a
\* search plugin registered, exactly one post_build handler is wrapped, it is
\* the search plugin's, and the host's call gives it site_dir/<locale>; in
\* the default pass, or with no search plugin, no handler is wrapped and the
\* search handler gets site_dir itself.  No handler is changed otherwise.
C14_SearchHandlerWrappedForLocale ==
    (stack # <<>> /\ Top.pc \in AfterEnv) =>
        LET evs == Top.post_build
            loaded == PostBuildEvents(plugins)
            wrapped == {i \in 1..Len(evs) : evs[i].wrapped}
            registered == Range(plugins) \cap SearchNames # {}
        IN  /\ Len(evs) = Len(loaded)
            /\ \A i \in 1..Len(evs) : [evs[i] EXCEPT !.wrapped = FALSE] = loaded[i]
            /\ IF registered /\ current_language # default_language
               THEN /\ Cardinality(wrapped) = 1
                    /\ \A i \in wrapped : evs[i].self /\ evs[i].cls \in SearchNames
                    /\ Top.pc = "post_build" =>
                          Top.search_dir = Root \o "/" \o current_language
               ELSE /\ wrapped = {}
                    /\ Top.pc = "post_build" =>
                          Top.search_dir = IF registered THEN Root ELSE "unset"

\* C14 witness: in a nested pass the host has called the search plugin's
\* handler, registered after another plugin's, with the directory of the
\* pass's locale.
C14_Witness ==
    /\ Len(stack) = 2
    /\ Top.pc = "post_build"
    /\ current_language = "fr"
    /\ Top.post_build[3].cls = "material/search"
    /\ Top.post_build[3].wrapped
    /\ Top.search_dir = "site/fr"

\* The position of the first "<script" of a text, 0 when it has none.
FirstScript(text) ==
    LET at == {i \in 1..Len(text) : text[i] = Script}
    IN  IF at = {} THEN 0 ELSE CHOOSE i \in at : \A j \in at : i <= j

\* C16: on_post_page, and on_post_template for a template other than
\* sitemap.xml, return the output with one i18n_link script put right before
\* its first "<script" and nothing else changed (an output without
\* "<script" comes back as it is); the value is the link of the language of
\* current_language with every "./" removed.  For sitemap.xml
\* on_post_template returns None.
C16_LinkScriptInserted ==
    (page.hook \in {"on_post_template", "on_post_page"} /\ page.returned # "pending") =>
        IF page.hook = "on_post_template" /\ page.template_name = "sitemap.xml"
        THEN page.returned = None
        ELSE LET out == page.output
                 i == FirstScript(out)
                 mine == {l \in Range(languages) : l.locale = current_language}
                 link == (CHOOSE l \in mine : TRUE).link
                 def == LinkDefinition(Replace(link, <<".", "/">>, <<>>))
             IN  /\ page.returned = "str"
                 /\ Cardinality(mine) = 1
                 /\ IF i = 0
                    THEN page.result = out
                    ELSE /\ page.result = SubSeq(out, 1, i - 1) \o <<Script, def, Script>>
                                              \o SubSeq(out, i + 1, Len(out))
                         /\ Cardinality({j \in 1..Len(page.result) :
                                            page.result[j].tag = def.tag}) = 1

\* C16 witness: on_post_page has been given an output with two "<script",
\* the first after other markup, by a plugin whose current language has the
\* link "./fr"; the inserted value is "fr".
C16_Witness ==
    /\ page.hook = "on_post_page"
    /\ page.returned = "str"
    /\ page.output = <<Markup, Script, Script>>
    /\ current_language = "fr"
    /\ languages[2].link = <<".", "/", "fr">>
    /\ Len(page.result) = 5
    /\ page.result[3].value = <<"fr">>
====
